---- MODULE Spec2Model ----
(***************************************************************************)
(* A model of the reactive core of the food-delivery React lessons:        *)
(*   - useOnlineStatus      (lec9/src/utilis/useOnlineStatus.js)           *)
(*   - useRestaurantMenu    (lec9/src/utilis/useRestaurantMenu.js)         *)
(*   - Shimmer, UserClass and the list Body (lec9 components)              *)
(*   - RestaurantMenu       (hook version and inline-fetch version)        *)
(*   - the lec5 Body        (lec5-React_Hooks/src/components/Body.js)      *)
(*                                                                         *)
(* React itself is the runtime: a mount creates a fresh instance with the  *)
(* useState initial values, effects with [] dependencies run once per      *)
(* mount, an unmount runs the effect cleanups and discards the instance.   *)
(* A fetch is a pending continuation bound to the instance that issued it; *)
(* its resolution runs the rest of the async function, whatever happened   *)
(* to the instance in the meantime.                                        *)
(***************************************************************************)
EXTENDS Integers, Sequences, FiniteSets, TLC

(***************************************************************************)
(* Bounds of the model.                                                    *)
(***************************************************************************)
\* how many times each view may be mounted in one behaviour
MaxMounts == 2
\* longest list the list endpoint answers with
MaxListLen == 3
\* fraction digits kept when a rating string is converted to a number
FracDigits == 2
\* longest itemCards sequence of a detail response
MaxItems == 1
\* how many times the effect of useFetch runs
MaxEffectRuns == 3
\* how many nodes a detail response lacks at most
MaxMissing == 1
\* how many times a view is mounted in the development run
MaxStrictMounts == 1

(***************************************************************************)
(* JavaScript values, as far as the code looks at them.                    *)
(* Strings are sequences of one-character strings; numbers are fixed-point *)
(* integers with FracDigits fraction digits.                               *)
(***************************************************************************)
RECURSIVE Pow10(_)
Pow10(n) == IF n = 0 THEN 1 ELSE 10 * Pow10(n - 1)

Scale == Pow10(FracDigits)

JsUndefined == [t |-> "undefined", s |-> <<>>, v |-> 0]
JsNull      == [t |-> "null",      s |-> <<>>, v |-> 0]
JsNaN       == [t |-> "NaN",       s |-> <<>>, v |-> 0]
JsString(str) == [t |-> "string",  s |-> str,  v |-> 0]
\* the number n / Scale
JsNumber(n) == [t |-> "number",    s |-> <<>>, v |-> n]

IsDigit(c) == c \in {"0", "1", "2", "3", "4", "5", "6", "7", "8", "9"}

DigitValue(c) ==
    CASE c = "0" -> 0 [] c = "1" -> 1 [] c = "2" -> 2 [] c = "3" -> 3
      [] c = "4" -> 4 [] c = "5" -> 5 [] c = "6" -> 6 [] c = "7" -> 7
      [] c = "8" -> 8 [] c = "9" -> 9

RECURSIVE TrimStart(_)
TrimStart(str) ==
    IF str # <<>> /\ Head(str) = " " THEN TrimStart(Tail(str)) ELSE str

RECURSIVE TrimEnd(_)
TrimEnd(str) ==
    IF str # <<>> /\ str[Len(str)] = " "
    THEN TrimEnd(SubSeq(str, 1, Len(str) - 1))
    ELSE str

\* the value of a run of decimal digits
RECURSIVE DecimalValue(_)
DecimalValue(ds) ==
    IF ds = <<>> THEN 0
    ELSE 10 * DecimalValue(SubSeq(ds, 1, Len(ds) - 1)) + DigitValue(ds[Len(ds)])

\* the value, in units of 1/Scale, of the fraction digits after the point
RECURSIVE FractionValue(_, _)
FractionValue(ds, place) ==
    IF ds = <<>> \/ place = 0 THEN 0
    ELSE DigitValue(Head(ds)) * Pow10(place - 1) + FractionValue(Tail(ds), place - 1)

\* Number(string): white space is trimmed, the empty string is 0, an unsigned
\* decimal literal (digits, at most one point, at least one digit) is its
\* value, and every other text is NaN.
StringToNumber(str) ==
    LET txt  == TrimEnd(TrimStart(str))
        dots == {i \in 1..Len(txt) : txt[i] = "."}
    IN  IF txt = <<>> THEN JsNumber(0)
        ELSE IF \/ \E i \in 1..Len(txt) : ~IsDigit(txt[i]) /\ txt[i] # "."
                \/ Cardinality(dots) > 1
                \/ Len(txt) = Cardinality(dots)
        THEN JsNaN
        ELSE LET dot == IF dots = {} THEN Len(txt) + 1 ELSE CHOOSE i \in dots : TRUE
             IN  JsNumber(DecimalValue(SubSeq(txt, 1, dot - 1)) * Scale
                          + FractionValue(SubSeq(txt, dot + 1, Len(txt)), FracDigits))

\* Number(value)
Number(val) ==
    CASE val.t = "undefined" -> JsNaN
      [] val.t = "null"      -> JsNumber(0)
      [] val.t = "NaN"       -> JsNaN
      [] val.t = "number"    -> val
      [] val.t = "string"    -> StringToNumber(val.s)

\* a > b on two numbers: every comparison with NaN is false
GreaterThan(a, b) == a.t = "number" /\ b.t = "number" /\ a.v > b.v

toLowerCaseChar(c) ==
    CASE c = "A" -> "a" [] c = "B" -> "b" [] OTHER -> c

\* String.prototype.toLowerCase
toLowerCase(str) == [i \in 1..Len(str) |-> toLowerCaseChar(str[i])]

\* String.prototype.includes: the argument occurs at some position
includes(str, part) ==
    \E i \in 0..(Len(str) - Len(part)) : SubSeq(str, i + 1, i + Len(part)) = part

\* Array.prototype.filter; keep is the callback, as a function of the element
filter(list, keep) ==
    LET kept[i \in 0..Len(list)] ==
            IF i = 0 THEN <<>>
            ELSE IF keep[list[i]] THEN Append(kept[i - 1], list[i]) ELSE kept[i - 1]
    IN  kept[Len(list)]

\* the elements of an array
Elements(list) == { list[i] : i \in 1..Len(list) }

(***************************************************************************)
(* The data the endpoints can answer with.                                 *)
(***************************************************************************)
Restaurant(name, rating) == [name |-> name, avgRating |-> rating]

\* the restaurants the list endpoint knows, in the order it serves them
Catalogue ==
    << Restaurant(<<"A", "b">>, JsString(<<"3", ".", "9">>)),
       Restaurant(<<"b", "A">>, JsString(<<"4", ".", "4">>)),
       Restaurant(<<"B">>,      JsString(<<"4", ".", "0">>)),
       Restaurant(<<"a">>,      JsUndefined),
       Restaurant(<<"a", "B">>, JsString(<<"4", "x">>)),
       Restaurant(<<"b">>,      JsNumber(4 * Scale + 1)) >>

\* the elements of Catalogue at the positions in picked, in catalogue order
Pick(picked) ==
    LET taken[i \in 0..Len(Catalogue)] ==
            IF i = 0 THEN <<>>
            ELSE IF i \in picked THEN Append(taken[i - 1], Catalogue[i]) ELSE taken[i - 1]
    IN  taken[Len(Catalogue)]

\* the answers of the list endpoint: at most MaxListLen restaurants
RestaurantLists ==
    { Pick(picked) : picked \in { q \in SUBSET (1..Len(Catalogue)) : Cardinality(q) <= MaxListLen } }

\* what the user can type into the search box
SearchTerms == { <<>>, <<"a">>, <<"B">>, <<"b", "a">> }

\* the identifiers in the address of the detail view
ResIds == {"A", "B"}

\* the values a price field of a menu item can hold
PriceValues == { JsUndefined, JsNull, JsNumber(0), JsNumber(99 * Scale),
                 JsNumber(250 * Scale) }

\* an element of itemCards with card.info: has names the deepest node it has
MenuItem(defaultPrice, price) ==
    [has |-> "info", defaultPrice |-> defaultPrice, price |-> price]

\* an element of itemCards without card.info ("card") or without card ("none")
ItemLacking(has) == [has |-> has, defaultPrice |-> JsUndefined, price |-> JsUndefined]

MenuItems == { MenuItem(d, p) : d \in PriceValues, p \in PriceValues }
                 \cup { ItemLacking("card"), ItemLacking("none") }

ItemCardLists == UNION { [1..n -> MenuItems] : n \in 0..MaxItems }

\* one step of a property access: op is "?." (optional) or "." (plain, also
\* an index), node is the node of the response that the step reaches
Step(op, node) == [op |-> op, node |-> node]

\* resInfo?.cards[2]?.card?.card?.info
InfoPath ==
    << Step("?.", "cards"), Step(".", "cards[2]"), Step("?.", "cards[2].card"),
       Step("?.", "cards[2].card.card"), Step("?.", "info") >>

\* resInfo?.cards[4]?.groupedCard?.cardGroupMap?.REGULAR?.cards[2]?.card?.card?.itemCards
ItemCardsPath ==
    << Step("?.", "cards"), Step(".", "cards[4]"), Step("?.", "groupedCard"),
       Step("?.", "cardGroupMap"), Step("?.", "REGULAR"), Step("?.", "REGULAR.cards"),
       Step(".", "REGULAR.cards[2]"), Step("?.", "REGULAR.cards[2].card"),
       Step("?.", "REGULAR.cards[2].card.card"), Step("?.", "itemCards") >>

\* the nodes of a detail response that the code navigates
DetailNodes ==
    {"data"} \cup { InfoPath[k].node : k \in 1..Len(InfoPath) }
             \cup { ItemCardsPath[k].node : k \in 1..Len(ItemCardsPath) }

\* the value of a property chain evaluated from start ("object", "undefined"
\* or "null") over a response that lacks the nodes in missing: "?." on
\* undefined or null ends the whole chain with undefined, a plain access on
\* them throws
Navigate(start, path, missing) ==
    LET Before(k) == IF k = 1 THEN start
                     ELSE IF path[k - 1].node \in missing THEN "undefined"
                     ELSE "object"
        stops == { k \in 1..Len(path) : Before(k) # "object" }
        first == CHOOSE k \in stops : \A j \in stops : k <= j
    IN  IF stops = {} THEN Before(Len(path) + 1)
        ELSE IF path[first].op = "?." THEN "undefined"
        ELSE "TypeError"

\* a node can be missing only where the nodes above it are there
Reachable(path, missing) ==
    \A k \in 1..Len(path) :
        path[k].node \in missing => \A j \in 1..(k - 1) : path[j].node \notin missing

\* the json of a detail response: the nodes it lacks and its itemCards (none
\* when the path to them is broken), the itemCards taken from itemLists
ResponsesWith(itemLists) ==
    { r \in [missing : { m \in SUBSET DetailNodes : Cardinality(m) <= MaxMissing },
             itemCards : itemLists] :
          /\ "data" \in r.missing => r.missing = {"data"}
          /\ Reachable(InfoPath, r.missing)
          /\ Reachable(ItemCardsPath, r.missing)
          /\ ("data" \in r.missing
                \/ Navigate("object", ItemCardsPath, r.missing) # "object")
                => r.itemCards = <<>> }

DetailResponses == ResponsesWith(ItemCardLists)

\* a json with every node of both paths and no item
CompleteResponse == [missing |-> {}, itemCards |-> <<>>]

\* json?.data?.cards[1]?.card?.card?.gridElements?.infoWithStyle?.restaurants
ListPath ==
    << Step("?.", "data"), Step("?.", "cards"), Step(".", "cards[1]"),
       Step("?.", "cards[1].card"), Step("?.", "cards[1].card.card"),
       Step("?.", "gridElements"), Step("?.", "infoWithStyle"), Step("?.", "restaurants") >>

\* json.data.cards[1].card.card.gridElements.infoWithStyle.restaurants, the
\* argument of the console.log in fetchData
LogPath == [k \in 1..Len(ListPath) |-> Step(".", ListPath[k].node)]

\* the json of a list response: complete with its restaurants, or lacking
\* one node of the path (and so everything below it)
ListResponses ==
    { [missing |-> {}, restaurants |-> list] : list \in RestaurantLists }
        \cup { [missing |-> {ListPath[k].node}, restaurants |-> <<>>] :
                   k \in 1..Len(ListPath) }

\* what fetchData or a render of Body threw, and for which response
ListFault(thrown, missing) == [thrown |-> thrown, missing |-> missing]
NoListFault == ListFault("none", {})

\* resInfo: null, undefined, or the data of the response for one identifier
NullInfo == [kind |-> "null", key |-> "", missing |-> {}, itemCards |-> <<>>]
MenuData(key, missing, items) ==
    [kind |-> IF "data" \in missing THEN "undefined" ELSE "data", key |-> key,
     missing |-> missing \ {"data"}, itemCards |-> items]

\* the component rendered at the root
Roots == {"lec5/Body", "lec9/Body", "lec9/RestaurantMenu", "lec9/UserClass",
          "notes/useFetch"}

\* a root that renders the list Body and a RestaurantMenu side by side
PairRoot == "lec9/Body + RestaurantMenu"
\* the two versions of RestaurantMenu, each under a root of its own, given the
\* same events
BothRoot == "RestaurantMenu with the hook + RestaurantMenu with fetchMenu"

\* the addresses given to useFetch
Urls == {"/api/posts", "/api/comments"}

\* null in the data and error states of useFetch
Null == "null"

\* no render has thrown
NoFault == [thrown |-> FALSE, missing |-> {}, itemCards |-> <<>>]

NoOp == [kind |-> "none", term |-> <<>>]
NoSnapshot == [initialList |-> <<>>, listOfRestaurant |-> <<>>, searchData |-> <<>>]

VARIABLES
    root,               \* the component under the root
    \* ---- the environment (window) ----
    netOnline,          \* the connectivity of the environment
    listeners,          \* the listeners registered on window
    \* ---- the list Body (lec9) ----
    bodyMounts,         \* how many Body instances were mounted so far
    bodyInst,           \* the mounted Body instance, 0 when none is mounted
    initialList,        \* useState([])  - the master list
    listOfRestaurant,   \* useState([])  - the visible list
    searchData,         \* useState("")  - the text in the search box
    onlineStatus,       \* useState(true) of useOnlineStatus inside Body
    bodyFetches,        \* pending fetches of fetchData: [inst, run]
    undefinedLists,     \* listOfRestaurant and initialList hold undefined
    bodyFault,          \* the TypeError thrown by fetchData or by a render of Body
    fetched,            \* the restaurants that fetchData last gave to the setters
    \* ---- the lec5 Body ----
    resList,            \* the imported mock list
    lec5Mounts,         \* how many lec5 Body instances were mounted so far
    lec5Inst,           \* the mounted lec5 Body instance, 0 when none
    lec5List,           \* useState(resList) - listOfRestaurant of the lec5 Body
    \* ---- RestaurantMenu with useRestaurantMenu ----
    menuMounts,         \* how many RestaurantMenu instances were mounted so far
    menuInst,           \* the mounted RestaurantMenu instance, 0 when none
    resId,              \* useParams().resId of the mounted instance
    resInfo,            \* useState(null) of useRestaurantMenu
    menuFetches,        \* pending fetches of the hook: [inst, key, run]
    menuFault,          \* the response whose render threw (the tree is unmounted)
    menuLog,            \* renders, fetchData calls and failures of the mounted RestaurantMenu
    \* ---- RestaurantMenu with the inline fetchMenu ----
    inlineInst,         \* the mounted inline RestaurantMenu instance, 0 when none
    inlineResInfo,      \* useState(null) of the inline RestaurantMenu
    inlineFetches,      \* pending fetches of fetchMenu: [inst, key, run]
    inlineFault,        \* a render of the inline RestaurantMenu threw
    \* ---- UserClass ----
    userMounts,         \* how many UserClass instances were mounted so far
    userInst,           \* the mounted UserClass instance, 0 when none
    userInfo,           \* this.state.userInfo
    userFetches,        \* the UserClass instances whose fetch is still pending
    userLog,            \* the methods React called on the last mounted instance
    \* ---- a component that calls useFetch(url) (lec9/notes.md) ----
    useFetchMounts,     \* how many such components were mounted so far
    useFetchInst,       \* the mounted instance, 0 when none
    url,                \* the url the mounted instance passes to useFetch
    data,               \* useState(null): Null, or the url whose json it holds
    loading,            \* useState(true)
    error,              \* useState(null): Null, or the url whose fetch failed
    effectRuns,         \* how many times the effect of useFetch ran so far
    requests,           \* pending fetches: [run, inst, url, cancelled]
    \* ---- history ----
    staleCalls,         \* the state setters invoked for an unmounted instance
    lastOp,             \* the last operation that set the visible list
    prevOp,             \* the operation before lastOp
    conn,               \* for a mounted Body: "off" after an offline event, "offon"
                        \* after offline, online
    snapshot            \* the Body state as it was before the offline event

envVars  == << netOnline, listeners >>
bodyVars == << bodyMounts, bodyInst, initialList, listOfRestaurant, searchData,
               onlineStatus, bodyFetches, undefinedLists, bodyFault, fetched >>
lec5Vars == << resList, lec5Mounts, lec5Inst, lec5List >>
inlineVars == << inlineInst, inlineResInfo, inlineFetches, inlineFault >>
menuVars == << menuMounts, menuInst, resId, resInfo, menuFetches, menuFault, menuLog >>
userVars == << userMounts, userInst, userInfo, userFetches, userLog >>
fetchVars == << useFetchMounts, useFetchInst, url, data, loading, error, effectRuns,
               requests >>
opVars   == << lastOp, prevOp >>
connVars == << conn, snapshot >>

vars == << root, envVars, bodyVars, lec5Vars, menuVars, inlineVars, userVars, fetchVars,
           staleCalls, opVars, connVars >>

(***************************************************************************)
(* window.addEventListener / window.removeEventListener.                   *)
(* A listener is a closure: it is identified by the instance whose effect  *)
(* created it and by the place in the code that created it.                *)
(***************************************************************************)
Listener(type, owner, site) == [type |-> type, owner |-> owner, site |-> site]

addEventListener(registered, l) == registered \cup {l}

\* removes the listener that is the same reference as l, if there is one
removeEventListener(registered, l) == registered \ {l}

\* a variant of the effect body that registers the offline listener only
OnlineStatusEffectOfflineOnly(registered, i) ==
    addEventListener(registered, Listener("offline", i, "effect"))

\* useOnlineStatus: the effect body, run once after the mount of instance i
OnlineStatusEffect(registered, i) ==
    addEventListener(addEventListener(registered, Listener("offline", i, "effect")),
                     Listener("online", i, "effect"))

\* useOnlineStatus: the effect body when the same instance runs it a second
\* time; the two arrow functions are new closures
OnlineStatusEffectAgain(registered, i) ==
    addEventListener(addEventListener(registered,
                                      Listener("offline", i, "effect, second run")),
                     Listener("online", i, "effect, second run"))

\* useOnlineStatus: the cleanup returned by the effect; it passes two arrow
\* functions created by the cleanup itself to removeEventListener
OnlineStatusCleanup(registered, i) ==
    removeEventListener(removeEventListener(registered, Listener("offline", i, "cleanup")),
                        Listener("online", i, "cleanup"))

\* every step that is not a connectivity event ends an offline/online pair
Touch == conn' = "idle" /\ snapshot' = NoSnapshot

\* an operation sets the visible list
Record(op) == lastOp' = op /\ prevOp' = lastOp
Forget == lastOp' = NoOp /\ prevOp' = NoOp

(***************************************************************************)
(* The list Body (lec9).                                                   *)
(***************************************************************************)
\* a variant of the render that tests the list before the connectivity
BodyRenderListFirst(online, undefinedList, visible) ==
    IF undefinedList THEN "TypeError"
    ELSE IF Len(visible) = 0 THEN "Shimmer"
    ELSE IF online = FALSE THEN "offline"
    ELSE "list"

\* what Body returns for its states: the offline notice, the Shimmer or the
\* list; reading the length of an undefined list throws
BodyRender(online, undefinedList, visible) ==
    IF online = FALSE THEN "offline"
    ELSE IF undefinedList THEN "TypeError"
    ELSE IF Len(visible) = 0 THEN "Shimmer"
    ELSE "list"

\* what the mounted Body shows
BodyView == BodyRender(onlineStatus, undefinedLists, listOfRestaurant)

\* what belongs to the mounted instance of Body, and to that of RestaurantMenu
bodyInstance == << bodyInst, listeners, initialList, listOfRestaurant, undefinedLists,
                   fetched, searchData, onlineStatus, lastOp, prevOp >>
menuInstance == << menuInst, resId, resInfo, menuLog >>

\* the Body is unmounted (nothing changes when none is mounted): its state
\* is dropped and its cleanup runs
BodyGone ==
    /\ bodyInst' = 0
    /\ listeners' = OnlineStatusCleanup(listeners, bodyInst)
    /\ initialList' = <<>>
    /\ listOfRestaurant' = <<>>
    /\ undefinedLists' = FALSE
    /\ fetched' = <<>>
    /\ searchData' = <<>>
    /\ onlineStatus' = TRUE
    /\ Forget

\* the RestaurantMenu is unmounted (nothing changes when none is mounted)
MenuGone ==
    /\ menuInst' = 0
    /\ resId' = ""
    /\ resInfo' = NullInfo
    /\ menuLog' = <<>>

\* a render of Body threw: React unmounts the whole tree of the root, the
\* views beside the Body included, and runs the cleanups
BodyTornDown(fault) ==
    /\ bodyFault' = fault
    /\ BodyGone
    /\ MenuGone

\* the search box and the two buttons are on screen
BodyShowsList == bodyInst # 0 /\ BodyView = "list"

\* variants of the search handler used to test the properties below
SearchResultSkipsEmpty(master, visible, term) ==
    LET Match == [res \in Elements(master) |->
                     includes(toLowerCase(res.name), toLowerCase(term))]
    IN  IF term = <<>> THEN visible ELSE filter(master, Match)

SearchResultRawTerm(master, visible, term) ==
    LET Match == [res \in Elements(master) |-> includes(toLowerCase(res.name), term)]
    IN  filter(master, Match)

SearchResultToggle(master, visible, term) ==
    LET Match == [res \in Elements(master) |->
                     includes(toLowerCase(res.name), toLowerCase(term))]
    IN  IF visible = filter(master, Match) THEN master ELSE filter(master, Match)

\* the search button's onClick: the new listOfRestaurant
SearchResult(master, visible, term) ==
    LET Match == [res \in Elements(master) |->
                     includes(toLowerCase(res.name), toLowerCase(term))]
    IN  filter(master, Match)

\* variants of the filter handler used to test the properties below
TopRatedOfVisible(master, visible) ==
    LET Top == [r \in Elements(visible) |->
                   GreaterThan(Number(r.avgRating), JsNumber(4 * Scale))]
    IN  filter(visible, Top)

TopRatedAtLeast(master, visible) ==
    LET Top == [r \in Elements(master) |->
                   /\ Number(r.avgRating).t = "number"
                   /\ ~GreaterThan(JsNumber(4 * Scale), Number(r.avgRating))]
    IN  filter(master, Top)

\* the filter button's onClick: the new listOfRestaurant
TopRatedResult(master, visible) ==
    LET Top == [r \in Elements(master) |->
                   GreaterThan(Number(r.avgRating), JsNumber(4 * Scale))]
    IN  filter(master, Top)

\* a variant of the hook that starts from the connectivity of the environment
InitialOnlineStatusOfEnvironment == netOnline

\* useState(true) of useOnlineStatus
InitialOnlineStatus == TRUE

\* one call of fetchData by instance inst, in its run-th effect run
BodyFetch(inst, run) == [inst |-> inst, run |-> run]

\* the first render and the effects of Body and of useOnlineStatus; under
\* StrictMode (strict) React runs the effects, their cleanups and the effects
\* again, on the same instance
BodyMounted(strict) ==
    /\ root \in {"lec9/Body", PairRoot}
    /\ bodyInst = 0
    /\ bodyFault.thrown # "render"
    /\ ~menuFault.thrown
    /\ bodyMounts < (IF strict THEN MaxStrictMounts ELSE MaxMounts)
    /\ undefinedLists' = FALSE
    /\ bodyFault' = NoListFault
    /\ fetched' = <<>>
    /\ bodyMounts' = bodyMounts + 1
    /\ bodyInst' = bodyMounts + 1
    /\ initialList' = <<>>
    /\ listOfRestaurant' = <<>>
    /\ searchData' = <<>>
    /\ onlineStatus' = InitialOnlineStatus
    /\ bodyFetches' = bodyFetches \cup
          { BodyFetch(bodyMounts + 1, run) : run \in 1..(IF strict THEN 2 ELSE 1) }
    /\ listeners' =
          IF strict
          THEN OnlineStatusEffectAgain(
                  OnlineStatusCleanup(OnlineStatusEffect(listeners, bodyMounts + 1),
                                      bodyMounts + 1),
                  bodyMounts + 1)
          ELSE OnlineStatusEffect(listeners, bodyMounts + 1)
    /\ Forget
    /\ Touch
    /\ UNCHANGED << root, inlineVars, fetchVars, netOnline, lec5Vars, menuVars, userVars, staleCalls >>

BodyMount == BodyMounted(FALSE)

BodyMountStrict == BodyMounted(TRUE)

BodyUnmount ==
    /\ bodyInst # 0
    /\ bodyInst' = 0
    /\ listeners' = OnlineStatusCleanup(listeners, bodyInst)
    /\ initialList' = <<>>
    /\ listOfRestaurant' = <<>>
    /\ searchData' = <<>>
    /\ onlineStatus' = TRUE
    /\ undefinedLists' = FALSE
    /\ bodyFault' = NoListFault
    /\ fetched' = <<>>
    /\ Forget
    /\ Touch
    /\ UNCHANGED << root, inlineVars, fetchVars, netOnline, bodyMounts, bodyFetches, lec5Vars, menuVars,
                    userVars, staleCalls >>

\* a variant of fetchData that sets the visible list only
BodyFetchResolveVisibleOnly ==
    \E f \in bodyFetches :
        /\ bodyFetches' = bodyFetches \ {f}
        /\ IF f.inst = bodyInst
           THEN \E restaurants \in RestaurantLists :
                /\ listOfRestaurant' = restaurants
                /\ fetched' = restaurants
                /\ Record([kind |-> "fetch", term |-> <<>>])
                /\ UNCHANGED << initialList, staleCalls >>
           ELSE /\ staleCalls' = staleCalls \cup {"Body.setListOfRestaurant", "Body.setInitialList"}
                /\ UNCHANGED << listOfRestaurant, initialList, fetched, opVars >>
        /\ Touch
        /\ UNCHANGED << root, inlineVars, fetchVars, envVars, bodyMounts, bodyInst, searchData, onlineStatus,
                        undefinedLists, bodyFault, lec5Vars, menuVars, userVars >>

\* fetchData after its two awaits, for one pending fetch: setListOfRestaurant
\* and setInitialList are called one after the other with no await between
\* them, and React (createRoot) applies both in one render
\* a variant that hands the restaurants to the setters last one first
SetterArgumentReversed(json) ==
    [i \in 1..Len(json.restaurants) |->
        json.restaurants[Len(json.restaurants) + 1 - i]]

\* the argument of setListOfRestaurant and of setInitialList: the restaurants
\* of the json as they are
SetterArgument(json) == json.restaurants

\* The json is logged through the plain path first, which throws when a node
\* above restaurants is missing; the value of the optional path is then given
\* to both setters, and the render that follows reads its length.
BodyFetchResolve ==
    \E f \in bodyFetches :
        /\ bodyFetches' = bodyFetches \ {f}
        /\ IF f.inst = bodyInst
           THEN \E json \in ListResponses :
                IF Navigate("object", LogPath, json.missing) = "TypeError"
                THEN /\ bodyFault' = ListFault("fetchData", json.missing)
                     /\ UNCHANGED << listeners, bodyInst, initialList, listOfRestaurant,
                                     undefinedLists, fetched, searchData, onlineStatus,
                                     staleCalls, opVars, menuInstance >>
                ELSE LET undefinedList ==
                             Navigate("object", ListPath, json.missing) = "undefined"
                     IN  IF BodyRender(onlineStatus, undefinedList, json.restaurants)
                                = "TypeError"
                         THEN /\ BodyTornDown(ListFault("render", json.missing))
                              /\ UNCHANGED staleCalls
                         ELSE /\ listOfRestaurant' = SetterArgument(json)
                              /\ initialList' = SetterArgument(json)
                              /\ undefinedLists' = undefinedList
                              /\ fetched' = json.restaurants
                              /\ Record([kind |-> "fetch", term |-> <<>>])
                              /\ UNCHANGED << listeners, bodyInst, bodyFault, searchData,
                                              onlineStatus, staleCalls, menuInstance >>
           ELSE /\ staleCalls' = staleCalls \cup {"Body.setListOfRestaurant", "Body.setInitialList"}
                /\ UNCHANGED << listeners, bodyInst, initialList, listOfRestaurant,
                                undefinedLists, bodyFault, fetched, searchData, onlineStatus,
                                opVars, menuInstance >>
        /\ Touch
        /\ UNCHANGED << root, inlineVars, fetchVars, netOnline, bodyMounts, lec5Vars, menuMounts,
                        menuFetches, menuFault, userVars >>

\* the fetch rejects, or the body is not json: fetchData throws at an await
\* before it sets any state
BodyFetchReject ==
    \E f \in bodyFetches :
        /\ bodyFetches' = bodyFetches \ {f}
        /\ Touch
        /\ UNCHANGED << root, inlineVars, fetchVars, envVars, bodyMounts, bodyInst, initialList, listOfRestaurant,
                        searchData, onlineStatus, undefinedLists, bodyFault, fetched,
                        lec5Vars, menuVars, userVars, staleCalls, opVars >>

\* a variant of the search box that filters while the user types
TypeSearchFilters ==
    \E text \in SearchTerms :
        /\ BodyShowsList
        /\ text # searchData
        /\ searchData' = text
        /\ listOfRestaurant' = SearchResult(initialList, listOfRestaurant, text)
        /\ Touch
        /\ UNCHANGED << root, inlineVars, fetchVars, envVars, bodyMounts, bodyInst, initialList,
                        onlineStatus, bodyFetches, undefinedLists, bodyFault, fetched,
                        lec5Vars, menuVars, userVars, staleCalls, opVars >>

\* onChange of the search box
TypeSearch ==
    \E text \in SearchTerms :
        /\ BodyShowsList
        /\ text # searchData
        /\ searchData' = text
        /\ Touch
        /\ UNCHANGED << root, inlineVars, fetchVars, envVars, bodyMounts, bodyInst, initialList, listOfRestaurant,
                        onlineStatus, bodyFetches, undefinedLists, bodyFault, fetched,
                        lec5Vars, menuVars, userVars, staleCalls, opVars >>

\* onClick of the search button
ClickSearch ==
    /\ BodyShowsList
    /\ listOfRestaurant' = SearchResult(initialList, listOfRestaurant, searchData)
    /\ Record([kind |-> "search", term |-> searchData])
    /\ Touch
    /\ UNCHANGED << root, inlineVars, fetchVars, envVars, bodyMounts, bodyInst, initialList, searchData,
                    onlineStatus, bodyFetches, undefinedLists, bodyFault, fetched,
                    lec5Vars, menuVars, userVars, staleCalls >>

\* a variant of the filter button that filters the master list in place
ClickTopRatedInPlace ==
    /\ BodyShowsList
    /\ listOfRestaurant' = TopRatedResult(initialList, listOfRestaurant)
    /\ initialList' = TopRatedResult(initialList, listOfRestaurant)
    /\ Record([kind |-> "filter", term |-> <<>>])
    /\ Touch
    /\ UNCHANGED << root, inlineVars, fetchVars, envVars, bodyMounts, bodyInst, searchData,
                    onlineStatus, bodyFetches, undefinedLists, bodyFault, fetched,
                    lec5Vars, menuVars, userVars, staleCalls >>

\* onClick of the "Top Rated Restaurant" button
ClickTopRated ==
    /\ BodyShowsList
    /\ listOfRestaurant' = TopRatedResult(initialList, listOfRestaurant)
    /\ Record([kind |-> "filter", term |-> <<>>])
    /\ Touch
    /\ UNCHANGED << root, inlineVars, fetchVars, envVars, bodyMounts, bodyInst, initialList, searchData,
                    onlineStatus, bodyFetches, undefinedLists, bodyFault, fetched,
                    lec5Vars, menuVars, userVars, staleCalls >>

(***************************************************************************)
(* The lec5 Body: one state, initialised with the imported list.           *)
(***************************************************************************)
\* the filter button's onClick: the new listOfRestaurant
Lec5TopRatedResult(visible) ==
    LET Top == [r \in Elements(visible) |->
                   GreaterThan(Number(r.avgRating), JsNumber(4 * Scale))]
    IN  filter(visible, Top)

Lec5Mount ==
    /\ root = "lec5/Body"
    /\ lec5Inst = 0
    /\ lec5Mounts < MaxMounts
    /\ lec5Mounts' = lec5Mounts + 1
    /\ lec5Inst' = lec5Mounts + 1
    /\ lec5List' = resList
    /\ Forget
    /\ Touch
    /\ UNCHANGED << root, inlineVars, fetchVars, envVars, bodyVars, resList, menuVars, userVars, staleCalls >>

Lec5Unmount ==
    /\ lec5Inst # 0
    /\ lec5Inst' = 0
    /\ lec5List' = <<>>
    /\ Forget
    /\ Touch
    /\ UNCHANGED << root, inlineVars, fetchVars, envVars, bodyVars, resList, lec5Mounts, menuVars, userVars,
                    staleCalls >>

\* onClick of the "Top Rated Restaurant" button
Lec5ClickTopRated ==
    /\ lec5Inst # 0
    /\ lec5List' = Lec5TopRatedResult(lec5List)
    /\ Record([kind |-> "filter", term |-> <<>>])
    /\ Touch
    /\ UNCHANGED << root, inlineVars, fetchVars, envVars, bodyVars, resList, lec5Mounts, lec5Inst, menuVars,
                    userVars, staleCalls >>

(***************************************************************************)
(* RestaurantMenu with the useRestaurantMenu hook.                         *)
(***************************************************************************)
\* ToBoolean
Truthy(val) ==
    CASE val.t = "number" -> val.v # 0
      [] val.t = "string" -> val.s # <<>>
      [] OTHER            -> FALSE

\* a || b
LogicalOr(a, b) == IF Truthy(a) THEN a ELSE b

\* what React puts on screen for a child value: nothing (JsUndefined) for
\* undefined, null and the empty string, the text of the value otherwise
RenderChild(val) ==
    IF val.t \in {"undefined", "null"} \/ val = JsString(<<>>) THEN JsUndefined ELSE val

\* the price in the <li> of one item
ItemPrice(item) == RenderChild(LogicalOr(item.defaultPrice, item.price))

\* what RestaurantMenu returns for the value info of resInfo: the Shimmer, or
\* the menu with the name ("" when undefined) and one price per item; or the
\* TypeError that the render throws
MenuRender(info) ==
    LET start == IF info.kind = "data" THEN "object" ELSE info.kind
        infoNode == Navigate(start, InfoPath, info.missing)
        itemsNode == Navigate(start, ItemCardsPath, info.missing)
        itemCards == IF itemsNode = "object" THEN info.itemCards ELSE <<>>
        Thrown == [shown |-> "TypeError", name |-> "", prices |-> <<>>]
    IN  IF infoNode = "TypeError" \/ itemsNode = "TypeError" THEN Thrown
        ELSE IF info.kind = "null" THEN [shown |-> "Shimmer", name |-> "", prices |-> <<>>]
        ELSE IF \E i \in 1..Len(itemCards) : itemCards[i].has # "info" THEN Thrown
        ELSE [shown |-> "menu",
              name |-> IF infoNode = "object" THEN "name" ELSE "",
              prices |-> [i \in 1..Len(itemCards) |-> ItemPrice(itemCards[i])]]

\* what the mounted RestaurantMenu shows
MenuView == MenuRender(resInfo)

\* a variant of the hook's initial state: an empty object instead of null
InitialResInfoEmptyObject == MenuData("", {}, <<>>)

\* useState(null) of useRestaurantMenu
InitialResInfo == NullInfo

\* the entry of menuLog for a render with resInfo = info
Rendered(info) == << "render", info.kind >>

\* a variant in which setting a value equal to the current one renders nothing
SetResInfoRendersIfChanged(current, info) ==
    IF info = current THEN <<>> ELSE << Rendered(info) >>

\* the renders that setResInfo(info) causes: json.data is a new object for every
\* response, so React renders again even when its content is the same; only
\* undefined set over undefined is the same value, and React bails out
SetResInfoRenders(current, info) ==
    IF info.kind = "undefined" /\ current.kind = "undefined" THEN <<>>
    ELSE << Rendered(info) >>

\* one call of fetchData by instance inst, in its run-th effect run
MenuFetch(inst, key, run) == [inst |-> inst, key |-> key, run |-> run]

\* the first render and the effect: fetchData() for the resId of that render;
\* under StrictMode (strict) React runs the effect twice on the same instance
HookMounted(strict, key) ==
    /\ root \in {"lec9/RestaurantMenu", PairRoot, BothRoot}
    /\ menuInst = 0
    /\ ~menuFault.thrown
    /\ bodyFault.thrown # "render"
    /\ menuMounts < (IF strict THEN MaxStrictMounts ELSE MaxMounts)
    /\ menuMounts' = menuMounts + 1
    /\ menuInst' = menuMounts + 1
    /\ resId' = key
    /\ resInfo' = InitialResInfo
    /\ menuFetches' = menuFetches \cup
          { MenuFetch(menuMounts + 1, key, run) :
                run \in 1..(IF strict THEN 2 ELSE 1) }
    /\ menuLog' = << Rendered(InitialResInfo) >>
                      \o [run \in 1..(IF strict THEN 2 ELSE 1) |-> << "fetchData" >>]
    /\ Touch
    /\ UNCHANGED << root, fetchVars, envVars, bodyVars, lec5Vars, userVars, menuFault,
                    staleCalls, opVars >>

MenuMounted(strict) ==
    \E key \in ResIds : HookMounted(strict, key) /\ UNCHANGED inlineVars

MenuMount == MenuMounted(FALSE)

MenuMountStrict == MenuMounted(TRUE)

HookUnmounted ==
    /\ menuInst # 0
    /\ menuInst' = 0
    /\ resId' = ""
    /\ resInfo' = NullInfo
    /\ menuLog' = <<>>
    /\ Touch
    /\ UNCHANGED << root, fetchVars, envVars, bodyVars, lec5Vars, menuMounts, menuFetches,
                    menuFault, userVars, staleCalls, opVars >>

MenuUnmount == HookUnmounted /\ UNCHANGED inlineVars

\* the address changes to another identifier: the mounted instance renders
\* again with the new resId; the effect has no dependencies and does not run
\* (menuLog keeps the renders of the load only)
MenuParamsChange ==
    \E key \in ResIds :
        /\ menuInst # 0
        /\ key # resId
        /\ resId' = key
        /\ Touch
        /\ UNCHANGED << root, inlineVars, fetchVars, envVars, bodyVars, lec5Vars, menuMounts, menuInst, resInfo,
                        menuFetches, menuFault, menuLog, userVars, staleCalls, opVars >>

\* fetchData after its two awaits: setResInfo(json.data), then the render with
\* the new resInfo; when that render throws, React unmounts the tree
\* (responses: the answers the endpoint can give)
HookResolved(f, json) ==
    /\ menuFetches' = menuFetches \ {f}
    /\ IF f.inst = menuInst
       THEN LET info == MenuData(f.key, json.missing, json.itemCards)
            IN  /\ IF MenuRender(info).shown = "TypeError"
                   THEN /\ menuFault' = [thrown |-> TRUE, missing |-> json.missing,
                                          itemCards |-> json.itemCards]
                        /\ MenuGone
                        /\ BodyGone
                   ELSE /\ resInfo' = info
                        /\ menuLog' = menuLog \o SetResInfoRenders(resInfo, info)
                        /\ UNCHANGED << menuFault, menuInst, resId, bodyInstance >>
                /\ UNCHANGED staleCalls
       ELSE /\ staleCalls' = staleCalls \cup {"useRestaurantMenu.setResInfo"}
            /\ UNCHANGED << resInfo, menuFault, menuInst, resId, menuLog, bodyInstance >>
    /\ Touch
    /\ UNCHANGED << root, fetchVars, netOnline, bodyMounts, bodyFetches, bodyFault, lec5Vars,
                    menuMounts, userVars >>

\* (the response of a fetch whose instance is gone is not looked at)
MenuFetchResolved(responses) ==
    \E f \in menuFetches :
        \E json \in (IF f.inst = menuInst THEN responses ELSE {CompleteResponse}) :
            HookResolved(f, json) /\ UNCHANGED inlineVars

MenuFetchResolve == MenuFetchResolved(DetailResponses)

\* a variant in which the view fetches once more when its first fetch failed
MenuFetchRejectRetries ==
    \E f \in menuFetches :
        /\ menuFetches' = (menuFetches \ {f}) \cup
                              (IF f.inst = menuInst /\ f.run = 1
                               THEN {MenuFetch(f.inst, f.key, 2)} ELSE {})
        /\ menuLog' = IF f.inst = menuInst THEN menuLog \o << << "rejected" >>, << "fetchData" >> >>
                      ELSE menuLog
        /\ Touch
        /\ UNCHANGED << root, inlineVars, fetchVars, envVars, bodyVars, lec5Vars, menuMounts, menuInst, resId,
                        resInfo, menuFault, userVars, staleCalls, opVars >>

\* the fetch rejects, or the body is no json or is null (json.data throws):
\* fetchData throws before setResInfo
HookRejected(f) ==
    /\ menuFetches' = menuFetches \ {f}
    /\ menuLog' = IF f.inst = menuInst THEN Append(menuLog, << "rejected" >>) ELSE menuLog
    /\ Touch
    /\ UNCHANGED << root, fetchVars, envVars, bodyVars, lec5Vars, menuMounts, menuInst, resId,
                    resInfo, menuFault, userVars, staleCalls, opVars >>

MenuFetchReject ==
    \E f \in menuFetches : HookRejected(f) /\ UNCHANGED inlineVars

(***************************************************************************)
(* UserClass.                                                              *)
(***************************************************************************)
\* constructor, first render, then componentDidMount up to its first await
UserMount ==
    /\ root = "lec9/UserClass"
    /\ userInst = 0
    /\ userMounts < MaxMounts
    /\ userMounts' = userMounts + 1
    /\ userInst' = userMounts + 1
    /\ userInfo' = "Dummy"
    /\ userFetches' = userFetches \cup {userMounts + 1}
    /\ userLog' = << "constructor", "render", "componentDidMount" >>
    /\ Touch
    /\ UNCHANGED << root, inlineVars, fetchVars, envVars, bodyVars, lec5Vars, menuVars, staleCalls, opVars >>

\* componentWillUnmount only logs
UserUnmount ==
    /\ userInst # 0
    /\ userInst' = 0
    /\ userInfo' = "Dummy"
    /\ userLog' = Append(userLog, "componentWillUnmount")
    /\ Touch
    /\ UNCHANGED << root, inlineVars, fetchVars, envVars, bodyVars, lec5Vars, menuVars, userMounts, userFetches,
                    staleCalls, opVars >>

\* a variant in which the setState of an unmounted instance is applied too
UserFetchResolveApplied ==
    \E i \in userFetches :
        /\ userFetches' = userFetches \ {i}
        /\ userInfo' = "json"
        /\ userLog' = userLog \o << "setState", "render", "componentDidUpdate" >>
        /\ UNCHANGED staleCalls
        /\ Touch
        /\ UNCHANGED << root, inlineVars, fetchVars, envVars, bodyVars, lec5Vars, menuVars, userMounts, userInst,
                        opVars >>

\* a variant in which componentDidUpdate fetches and sets the state again
UserFetchResolveRefetches ==
    \E i \in userFetches :
        /\ i = userInst
        /\ Len(userLog) < 9
        /\ userFetches' = userFetches
        /\ userInfo' = "json"
        /\ userLog' = userLog \o << "setState", "render", "componentDidUpdate" >>
        /\ Touch
        /\ UNCHANGED << root, inlineVars, fetchVars, envVars, bodyVars, lec5Vars, menuVars, userMounts, userInst,
                        staleCalls, opVars >>

\* componentDidMount after its two awaits: this.setState({userInfo: json});
\* React renders the mounted instance again and calls componentDidUpdate, and
\* drops the update of an instance that is no longer mounted
UserFetchResolve ==
    \E i \in userFetches :
        /\ userFetches' = userFetches \ {i}
        /\ IF i = userInst
           THEN /\ userInfo' = "json"
                /\ userLog' = userLog \o << "setState", "render", "componentDidUpdate" >>
                /\ UNCHANGED staleCalls
           ELSE /\ staleCalls' = staleCalls \cup {"UserClass.setState"}
                /\ UNCHANGED << userInfo, userLog >>
        /\ Touch
        /\ UNCHANGED << root, inlineVars, fetchVars, envVars, bodyVars, lec5Vars, menuVars, userMounts, userInst,
                        opVars >>

UserFetchReject ==
    \E i \in userFetches :
        /\ userFetches' = userFetches \ {i}
        /\ Touch
        /\ UNCHANGED << root, inlineVars, fetchVars, envVars, bodyVars, lec5Vars, menuVars, userMounts, userInst,
                        userInfo, userLog, staleCalls, opVars >>

(***************************************************************************)
(* useFetch(url) of lec9/notes.md, called by one component.                *)
(* The setters called in the then/catch/finally callbacks of one promise   *)
(* chain are applied in one render (createRoot batches them).              *)
(***************************************************************************)
\* one run of the effect: its fetch and the `cancelled` of its closure
Request(run, inst, u) == [run |-> run, inst |-> inst, url |-> u, cancelled |-> FALSE]

\* the cleanup returned by the effect: cancelled = true
UseFetchCleanup(pending, i) ==
    { IF f.inst = i THEN [f EXCEPT !.cancelled = TRUE] ELSE f : f \in pending }

\* the first render and the first run of the effect
UseFetchMount ==
    \E u \in Urls :
        /\ root = "notes/useFetch"
        /\ useFetchInst = 0
        /\ useFetchMounts < MaxMounts
        /\ effectRuns < MaxEffectRuns
        /\ useFetchMounts' = useFetchMounts + 1
        /\ useFetchInst' = useFetchMounts + 1
        /\ url' = u
        /\ data' = Null
        /\ loading' = TRUE
        /\ error' = Null
        /\ effectRuns' = effectRuns + 1
        /\ requests' = requests \cup {Request(effectRuns + 1, useFetchMounts + 1, u)}
        /\ UNCHANGED << root, inlineVars, envVars, bodyVars, lec5Vars, menuVars, userVars,
                        staleCalls, opVars, connVars >>

\* a render with another url: the cleanup of the last run, then the effect
\* again (setLoading(true), fetch); data and error are left as they are
UseFetchUrlChange ==
    \E u \in Urls :
        /\ useFetchInst # 0
        /\ u # url
        /\ effectRuns < MaxEffectRuns
        /\ url' = u
        /\ loading' = TRUE
        /\ effectRuns' = effectRuns + 1
        /\ requests' = UseFetchCleanup(requests, useFetchInst)
                           \cup {Request(effectRuns + 1, useFetchInst, u)}
        /\ UNCHANGED << root, inlineVars, envVars, bodyVars, lec5Vars, menuVars, userVars,
                        useFetchMounts, useFetchInst, data, error,
                        staleCalls, opVars, connVars >>

UseFetchUnmount ==
    /\ useFetchInst # 0
    /\ useFetchInst' = 0
    /\ url' = ""
    /\ data' = Null
    /\ loading' = TRUE
    /\ error' = Null
    /\ requests' = UseFetchCleanup(requests, useFetchInst)
    /\ UNCHANGED << root, inlineVars, envVars, bodyVars, lec5Vars, menuVars, userVars,
                    useFetchMounts, effectRuns, staleCalls, opVars, connVars >>

\* a variant whose callbacks do not test `cancelled`
UseFetchResolveIgnoresCancelled ==
    \E f \in requests :
        /\ requests' = requests \ {f}
        /\ data' = f.url
        /\ loading' = FALSE
        /\ UNCHANGED << root, inlineVars, envVars, bodyVars, lec5Vars, menuVars, userVars,
                        useFetchMounts, useFetchInst, url, error, effectRuns,
                        staleCalls, opVars, connVars >>

\* the response is ok and its json parses: then(setData), finally(setLoading)
UseFetchResolve ==
    \E f \in requests :
        /\ requests' = requests \ {f}
        /\ IF ~f.cancelled
           THEN data' = f.url /\ loading' = FALSE
           ELSE UNCHANGED << data, loading >>
        /\ UNCHANGED << root, inlineVars, envVars, bodyVars, lec5Vars, menuVars, userVars,
                        useFetchMounts, useFetchInst, url, error, effectRuns,
                        staleCalls, opVars, connVars >>

\* the fetch rejects, the response is not ok or its json does not parse:
\* catch(setError), finally(setLoading)
UseFetchReject ==
    \E f \in requests :
        /\ requests' = requests \ {f}
        /\ IF ~f.cancelled
           THEN error' = f.url /\ loading' = FALSE
           ELSE UNCHANGED << error, loading >>
        /\ UNCHANGED << root, inlineVars, envVars, bodyVars, lec5Vars, menuVars, userVars,
                        useFetchMounts, useFetchInst, url, data, effectRuns,
                        staleCalls, opVars, connVars >>

(***************************************************************************)
(* Connectivity events: window dispatches the event to every registered    *)
(* listener of that type; each listener calls the setOnlineStatuse of the  *)
(* instance whose effect created it.                                       *)
(***************************************************************************)
Notified(type) == { l.owner : l \in { x \in listeners : x.type = type } }

Dispatch(type, value) ==
    /\ onlineStatus' = IF bodyInst # 0 /\ bodyInst \in Notified(type)
                       THEN value ELSE onlineStatus
    /\ staleCalls' = IF Notified(type) \ {bodyInst} # {}
                     THEN staleCalls \cup {"useOnlineStatus.setOnlineStatuse"}
                     ELSE staleCalls

OfflineEvent ==
    /\ netOnline
    /\ netOnline' = FALSE
    /\ Dispatch("offline", FALSE)
    /\ conn' = IF bodyInst # 0 THEN "off" ELSE "idle"
    /\ snapshot' = IF bodyInst # 0
                   THEN [initialList |-> initialList, listOfRestaurant |-> listOfRestaurant,
                         searchData |-> searchData]
                   ELSE NoSnapshot
    /\ UNCHANGED << root, inlineVars, fetchVars, listeners, bodyMounts, bodyInst, initialList, listOfRestaurant,
                    searchData, bodyFetches, undefinedLists, bodyFault, fetched,
                    lec5Vars, menuVars, userVars, opVars >>

\* a variant of the online listener that also resets the visible list
OnlineEventResetsList ==
    /\ ~netOnline
    /\ netOnline' = TRUE
    /\ Dispatch("online", TRUE)
    /\ listOfRestaurant' = initialList
    /\ conn' = IF conn = "off" THEN "offon" ELSE "idle"
    /\ snapshot' = IF conn = "off" THEN snapshot ELSE NoSnapshot
    /\ UNCHANGED << root, inlineVars, fetchVars, listeners, bodyMounts, bodyInst, initialList,
                    searchData, bodyFetches, undefinedLists, bodyFault, fetched,
                    lec5Vars, menuVars, userVars, opVars >>

\* the online listeners run; the render that follows setOnlineStatuse(true)
\* reads the length of the visible list
OnlineEvent ==
    /\ ~netOnline
    /\ netOnline' = TRUE
    /\ IF /\ bodyInst # 0
          /\ bodyInst \in Notified("online")
          /\ BodyRender(TRUE, undefinedLists, listOfRestaurant) = "TypeError"
       THEN /\ BodyTornDown(ListFault("render", {"restaurants"}))
            /\ staleCalls' = IF Notified("online") \ {bodyInst} # {}
                             THEN staleCalls \cup {"useOnlineStatus.setOnlineStatuse"}
                             ELSE staleCalls
            /\ Touch
       ELSE /\ Dispatch("online", TRUE)
            /\ conn' = IF conn = "off" THEN "offon" ELSE "idle"
            /\ snapshot' = IF conn = "off" THEN snapshot ELSE NoSnapshot
            /\ UNCHANGED << listeners, bodyInst, initialList, listOfRestaurant, searchData,
                            undefinedLists, bodyFault, fetched, opVars, menuInstance >>
    /\ UNCHANGED << root, inlineVars, fetchVars, bodyMounts, bodyFetches, lec5Vars, menuMounts,
                    menuFetches, menuFault, userVars >>

(***************************************************************************)
(* The specification.                                                      *)
(***************************************************************************)
InitOf(roots) ==
    /\ root \in roots
    /\ netOnline \in BOOLEAN
    /\ listeners = {}
    /\ bodyMounts = 0
    /\ bodyInst = 0
    /\ initialList = <<>>
    /\ listOfRestaurant = <<>>
    /\ searchData = <<>>
    /\ onlineStatus = TRUE
    /\ bodyFetches = {}
    /\ undefinedLists = FALSE
    /\ bodyFault = NoListFault
    /\ fetched = <<>>
    /\ resList \in (IF root = "lec5/Body" THEN RestaurantLists ELSE {<<>>})
    /\ lec5Mounts = 0
    /\ lec5Inst = 0
    /\ lec5List = <<>>
    /\ menuMounts = 0
    /\ menuInst = 0
    /\ resId = ""
    /\ resInfo = NullInfo
    /\ menuFetches = {}
    /\ menuFault = NoFault
    /\ menuLog = <<>>
    /\ inlineInst = 0
    /\ inlineResInfo = NullInfo
    /\ inlineFetches = {}
    /\ inlineFault = FALSE
    /\ userMounts = 0
    /\ userInst = 0
    /\ userInfo = "Dummy"
    /\ userFetches = {}
    /\ userLog = <<>>
    /\ useFetchMounts = 0
    /\ useFetchInst = 0
    /\ url = ""
    /\ data = Null
    /\ loading = TRUE
    /\ error = Null
    /\ effectRuns = 0
    /\ requests = {}
    /\ staleCalls = {}
    /\ lastOp = NoOp
    /\ prevOp = NoOp
    /\ conn = "idle"
    /\ snapshot = NoSnapshot

Init == InitOf(Roots)

\* every step but the mounts of Body and RestaurantMenu
Steps ==
    \/ BodyUnmount
    \/ BodyFetchResolve
    \/ BodyFetchReject
    \/ TypeSearch
    \/ ClickSearch
    \/ ClickTopRated
    \/ Lec5Mount
    \/ Lec5Unmount
    \/ Lec5ClickTopRated
    \/ MenuUnmount
    \/ MenuParamsChange
    \/ MenuFetchResolve
    \/ MenuFetchReject
    \/ UserMount
    \/ UserUnmount
    \/ UserFetchResolve
    \/ UserFetchReject
    \/ UseFetchMount
    \/ UseFetchUrlChange
    \/ UseFetchUnmount
    \/ UseFetchResolve
    \/ UseFetchReject
    \/ OfflineEvent
    \/ OnlineEvent

\* the production run: React runs every mount effect once
Next ==
    \/ BodyMount
    \/ MenuMount
    \/ Steps

Spec == Init /\ [][Next]_vars

\* the development run with the root wrapped in StrictMode: React runs every
\* mount effect twice
NextStrict ==
    \/ Steps
    \/ BodyMountStrict
    \/ MenuMountStrict

SpecStrict == Init /\ [][NextStrict]_vars

\* one load of the detail page, in the production or in the development
\* build, up to the settling of its fetches
LoadInit == Init /\ root = "lec9/RestaurantMenu"

\* the answers of a load: every shape of response, with items that all carry
\* the same price fields (the renders do not depend on the prices)
LoadItem == MenuItem(JsNumber(99 * Scale), JsUndefined)
LoadResponses == ResponsesWith(UNION { [1..n -> {LoadItem}] : n \in 0..MaxItems })

MenuLoadResolve == MenuFetchResolved(LoadResponses)

LoadNext == MenuMount \/ MenuMountStrict \/ MenuLoadResolve \/ MenuFetchReject
SpecLoad == LoadInit /\ [][LoadNext]_vars

\* the list Body and a RestaurantMenu mounted under one root at the same time
PairInit == InitOf({PairRoot})
PairNext ==
    \/ BodyMount \/ MenuMount
    \/ BodyFetchResolve \/ BodyFetchReject
    \/ MenuLoadResolve \/ MenuFetchReject
    \/ ClickSearch \/ ClickTopRated
    \/ OfflineEvent \/ OnlineEvent
SpecPair == PairInit /\ [][PairNext]_vars

(***************************************************************************)
(* Properties.                                                             *)
(***************************************************************************)
\* the setters that a fetch continuation calls
FetchSetters == {"useRestaurantMenu.setResInfo", "Body.setListOfRestaurant",
                 "Body.setInitialList", "UserClass.setState"}

\* two characters are the same letter, whatever their case
SameLetter(c, d) == c = d \/ {c, d} = {"a", "A"} \/ {c, d} = {"b", "B"}

\* term occurs in name at some position, compared case-insensitively
NameContains(name, term) ==
    \E k \in 0..(Len(name) - Len(term)) :
        \A j \in 1..Len(term) : SameLetter(name[k + j], term[j])

\* the rating, read as a number, is strictly greater than 4
RatedAboveFour(r) ==
    LET n == Number(r.avgRating) IN n.t = "number" /\ n.v > 4 * Scale

\* the predicate of a search or filter operation
Satisfies(r, op) ==
    IF op.kind = "search" THEN NameContains(r.name, op.term) ELSE RatedAboveFour(r)

\* visible holds exactly the elements of master that are in wanted, in the
\* order of master (the elements of master are distinct)
IsSelection(visible, master, wanted) ==
    /\ \A i \in 1..Len(visible) :
          \E k \in 1..Len(master) : master[k] = visible[i] /\ master[k] \in wanted
    /\ \A k \in 1..Len(master) :
          master[k] \in wanted => \E i \in 1..Len(visible) : visible[i] = master[k]
    /\ \A i, j \in 1..Len(visible) :
          i < j => \E k, l \in 1..Len(master) :
                      k < l /\ master[k] = visible[i] /\ master[l] = visible[j]

\* the master list and the visible list of the Body under the root
MasterList  == IF root = "lec5/Body" THEN resList ELSE initialList
VisibleList == IF root = "lec5/Body" THEN lec5List ELSE listOfRestaurant

C2_FinalDetailIsCurrentKey ==
    (/\ menuInst # 0
     /\ resInfo.kind = "data"
     /\ ~\E f \in menuFetches : f.inst = menuInst)
    => resInfo.key = resId

\* C3: every change of resId of a mounted detail hook puts it back to Loading
\* (resInfo null) and issues a fetch for the new identifier.
C3_KeyChangeRefetches ==
    [][ (menuInst # 0 /\ menuInst' = menuInst /\ resId' # resId)
        => (/\ resInfo' = NullInfo
            /\ \E f \in menuFetches' : f.inst = menuInst /\ f.key = resId') ]_vars

\* C4: in the list Body, after a search or top-rated operation that follows
\* another one, visibleList is the selection of masterList by the predicate of
\* the last operation alone.
C4_NoCompounding ==
    (/\ root = "lec9/Body"
     /\ lastOp.kind \in {"search", "filter"}
     /\ prevOp.kind \in {"search", "filter"})
    => IsSelection(listOfRestaurant, initialList,
                   { r \in Elements(initialList) : Satisfies(r, lastOp) })

\* a top-rated filter after a search brought back an element the search had
\* removed
C4_Witness ==
    /\ bodyInst # 0
    /\ lastOp.kind = "filter"
    /\ prevOp.kind = "search"
    /\ \E r \in Elements(listOfRestaurant) : ~NameContains(r.name, prevOp.term)

\* C5: the search with the empty term sets visibleList to masterList.
C5_EmptySearchIsIdentity ==
    (root = "lec9/Body" /\ lastOp = [kind |-> "search", term |-> <<>>])
    => listOfRestaurant = initialList

\* the empty search restored elements that the operation before it had removed
C5_Witness ==
    /\ bodyInst # 0
    /\ lastOp = [kind |-> "search", term |-> <<>>]
    /\ prevOp.kind \in {"search", "filter"}
    /\ Len(initialList) >= 2
    /\ \E r \in Elements(initialList) : ~Satisfies(r, prevOp)

\* C6: after an offline event directly followed by an online event,
\* masterList, visibleList and the search term are what they were before the
\* offline event.
C6_ConnectivityRoundTrip ==
    conn = "offon"
    => snapshot = [initialList |-> initialList, listOfRestaurant |-> listOfRestaurant,
                   searchData |-> searchData]

\* a mounted Body with a filtered list and a typed term went offline and back
C6_Witness ==
    /\ conn = "offon"
    /\ bodyInst # 0
    /\ onlineStatus = TRUE
    /\ listOfRestaurant # initialList
    /\ listOfRestaurant # <<>>
    /\ searchData # <<>>

\* C7: whenever no view using useOnlineStatus is mounted, no "offline" or
\* "online" listener is registered on the environment.
C7_NoResidualListeners == bodyInst = 0 => listeners = {}

\* C8: the top-rated filter sets visibleList to exactly the elements of
\* masterList rated strictly above 4, in order; the elements rated 3.9 and
\* 4.0, the one without rating and the one whose rating is no number are
\* excluded, and [3.9, 4.4, 4.0] yields only the 4.4 element.
C8_TopRatedFilter ==
    lastOp.kind = "filter"
    => /\ IsSelection(VisibleList, MasterList, { r \in Elements(MasterList) : RatedAboveFour(r) })
       /\ Elements(VisibleList)
             \cap {Catalogue[1], Catalogue[3], Catalogue[4], Catalogue[5]} = {}
       /\ Elements(MasterList) \cap {Catalogue[2], Catalogue[6]} \subseteq Elements(VisibleList)
       /\ MasterList = SubSeq(Catalogue, 1, 3) => VisibleList = <<Catalogue[2]>>

\* the scenario: ratings [3.9, 4.4, 4.0], filtered
C8_Witness ==
    /\ bodyInst # 0
    /\ lastOp.kind = "filter"
    /\ initialList = SubSeq(Catalogue, 1, 3)
    /\ listOfRestaurant = <<Catalogue[2]>>

\* C9: the search sets visibleList to exactly the elements of masterList whose
\* name contains the term at any position, whatever the case, in order.
C9_SearchSelectsSubstring ==
    (root = "lec9/Body" /\ lastOp.kind = "search")
    => IsSelection(listOfRestaurant, initialList,
                   { r \in Elements(initialList) : NameContains(r.name, lastOp.term) })

\* the term "B" found "Ab": not at the start of the name and in another case
C9_Witness ==
    /\ bodyInst # 0
    /\ lastOp = [kind |-> "search", term |-> <<"B">>]
    /\ Catalogue[1] \in Elements(listOfRestaurant)
    /\ Len(listOfRestaurant) < Len(initialList)

\* a price field is present when it holds a value
Present(val) == val.t \notin {"undefined", "null"}

\* C10: the price shown for a menu item is its defaultPrice whenever that
\* field is present, whatever its value, otherwise its price when present,
\* otherwise nothing.
C10_PricePrecedence ==
    (menuInst # 0 /\ resInfo.kind = "data")
    => \A i \in 1..Len(resInfo.itemCards) :
          LET item == resInfo.itemCards[i]
          IN  MenuView.prices[i] =
                 IF Present(item.defaultPrice) THEN RenderChild(item.defaultPrice)
                 ELSE IF Present(item.price) THEN RenderChild(item.price)
                 ELSE JsUndefined

\* C11: whenever the mounted list Body has onlineStatus false, it renders the
\* offline notice, whether its fetch is pending, resolved or rejected; it
\* renders neither the Shimmer nor the list.
C11_OfflineNoticeFirst ==
    (bodyInst # 0 /\ onlineStatus = FALSE) => BodyView = "offline"

\* the Body is offline while it holds a fetched, non-empty list
C11_Witness ==
    /\ bodyInst # 0
    /\ onlineStatus = FALSE
    /\ ~netOnline
    /\ ~\E f \in bodyFetches : f.inst = bodyInst
    /\ Len(listOfRestaurant) > 0

\* C12: whenever RestaurantMenu is mounted and the environment is offline, it
\* renders the offline notice, not the Shimmer and not the menu.
C12_DetailOfflineNotice ==
    (menuInst # 0 /\ ~netOnline) => MenuView.shown = "offline"

\* C13: while the fetch issued by the mounted view is pending, the list Body
\* (online) and RestaurantMenu render the Shimmer, not the list or the menu.
C13_PlaceholderWhilePending ==
    /\ (bodyInst # 0 /\ onlineStatus /\ \E f \in bodyFetches : f.inst = bodyInst)
           => BodyView = "Shimmer"
    /\ (menuInst # 0 /\ \E f \in menuFetches : f.inst = menuInst)
           => MenuView.shown = "Shimmer"

\* the fetch of the mounted RestaurantMenu is pending after its resId changed
C13_Witness ==
    /\ menuInst # 0
    /\ \E f \in menuFetches : f.inst = menuInst /\ f.key # resId

\* C14: once the fetch of the mounted list Body has resolved and the Body is
\* online, it renders the list (search box, filter button, visibleList), also
\* when visibleList is empty after a search or filter that matched nothing.
C14_PlaceholderOnlyWhileLoading ==
    (bodyInst # 0 /\ lastOp.kind # "none" /\ onlineStatus) => BodyView = "list"

\* C15: when the fetch of the mounted view rejects, the view leaves the
\* placeholder and shows a failure view.
C15_RejectionShowsFailure ==
    [][ /\ (/\ MenuFetchReject
            /\ \E f \in menuFetches \ menuFetches' : f.inst = menuInst)
              => MenuView'.shown = "failure"
        /\ (/\ BodyFetchReject
            /\ \E f \in bodyFetches \ bodyFetches' : f.inst = bodyInst
            /\ onlineStatus)
              => BodyView' = "failure" ]_vars

\* C16: each resource hook exposes exactly one of Loading, Ready and Failed:
\* useRestaurantMenu is Loading (resInfo null) or Ready; for useFetch data and
\* error are never both present, loading is never true together with data or
\* an error of the current url, and when loading is false one of them is
\* present.
C16_ExactlyOneResourceState ==
    /\ menuInst # 0 => (resInfo = NullInfo) # (resInfo.kind = "data")
    /\ useFetchInst # 0 =>
          /\ ~(data # Null /\ error # Null)
          /\ loading => (data # url /\ error # url)
          /\ ~loading => (data # Null \/ error # Null)

\* C17: one view instance never has two fetches for the same key in flight,
\* also when React runs its mount effect twice (StrictMode).
C17_OneFetchInFlight ==
    /\ \A f, g \in menuFetches : (f.inst = g.inst /\ f.key = g.key) => f = g
    /\ \A f, g \in bodyFetches : f.inst = g.inst => f = g

\* how many times method occurs in log
Occurrences(log, method) == Cardinality({ k \in 1..Len(log) : log[k] = method })

C19_VisibleDerivedFromMaster ==
    root = "lec9/Body" =>
        \/ listOfRestaurant = initialList
        \/ \E term \in SearchTerms :
              IsSelection(listOfRestaurant, initialList,
                          { r \in Elements(initialList) : NameContains(r.name, term) })
        \/ IsSelection(listOfRestaurant, initialList,
                       { r \in Elements(initialList) : RatedAboveFour(r) })

\* the visible list holds some elements of a fetched master list, and not
\* its first ones
C19_Witness ==
    /\ bodyInst # 0
    /\ lastOp.kind \in {"search", "filter"}
    /\ Len(listOfRestaurant) > 0
    /\ Len(listOfRestaurant) < Len(initialList)
    /\ listOfRestaurant # SubSeq(initialList, 1, Len(listOfRestaurant))

\* C20: whatever nodes a resolved detail response lacks, no render of
\* RestaurantMenu throws, and the view shows the menu with an empty name when
\* the path to info is broken and no items when the path to itemCards is.
C20_MissingNodesDefault ==
    /\ ~menuFault.thrown
    /\ (menuInst # 0 /\ resInfo # NullInfo) =>
          /\ MenuView.shown = "menu"
          /\ (\/ resInfo.kind = "undefined"
              \/ \E k \in 1..Len(InfoPath) : InfoPath[k].node \in resInfo.missing)
                => MenuView.name = ""
          /\ (\/ resInfo.kind = "undefined"
              \/ \E k \in 1..Len(ItemCardsPath) : ItemCardsPath[k].node \in resInfo.missing)
                => MenuView.prices = <<>>

\* the nodes of the list path above restaurants
IntermediateListNodes == { ListPath[k].node : k \in 1..(Len(ListPath) - 1) }

\* C21: for a resolved list response that lacks an intermediate node of the
\* path data.cards[1].card.card.gridElements.infoWithStyle.restaurants, neither
\* fetchData nor the render after it raises a fault, and masterList and
\* visibleList are the empty sequence.
C21_MissingListNodesTolerated ==
    /\ bodyFault.missing \cap IntermediateListNodes = {}
    /\ (bodyInst # 0 /\ bodyFault.missing # {})
          => (~undefinedLists /\ initialList = <<>> /\ listOfRestaurant = <<>>)

\* what is on the screen in place of a view: nothing once the tree is unmounted
BodyScreen == IF bodyInst = 0 THEN "nothing" ELSE BodyView
MenuScreen == IF menuInst = 0 THEN "nothing" ELSE MenuView.shown

\* C22: when the render of a data-dependent view has thrown, or its fetch
\* handler has failed, a failure view (with a retry action) is on the screen
\* in its place.
C22_FailureViewInPlace ==
    /\ menuFault.thrown => MenuScreen = "failure"
    /\ bodyFault.thrown = "render" => BodyScreen = "failure"
    /\ (bodyInst # 0 /\ bodyFault.thrown = "fetchData" /\ onlineStatus)
          => BodyScreen = "failure"

\* C23: when the list fetch of the mounted Body resolves successfully,
\* masterList (initialList) and visibleList (listOfRestaurant) are both the
\* fetched sequence: the same elements in the order received.
C23_FetchSetsBothLists ==
    (bodyInst # 0 /\ lastOp.kind = "fetch")
        => (initialList = fetched /\ listOfRestaurant = fetched)

\* the Body received a list of several different restaurants that is not in
\* the catalogue's order
C23_Witness ==
    /\ bodyInst # 0
    /\ lastOp.kind = "fetch"
    /\ Len(fetched) >= 2
    /\ fetched[1] # fetched[2]
    /\ listOfRestaurant = fetched
    /\ initialList = fetched

\* C24: for a mounted view using useOnlineStatus, every offline event sets the
\* reported value to false, every online event sets it to true, and nothing
\* else changes it: after any sequence of events it is the kind of the most
\* recent one.
C24_ReportsLatestEvent ==
    [][ (bodyInst # 0 /\ bodyInst' = bodyInst) =>
           /\ OfflineEvent => onlineStatus' = FALSE
           /\ OnlineEvent => onlineStatus' = TRUE
           /\ (netOnline' = netOnline) => onlineStatus' = onlineStatus ]_vars

\* the mounted Body reports online after an offline event and an online event
C24_Witness ==
    /\ bodyInst # 0
    /\ conn = "offon"
    /\ netOnline
    /\ onlineStatus = TRUE
    /\ bodyFetches = {}

\* C25: unmounting one subscriber of the connectivity events does not stop the
\* others: a mounted subscriber is notified of both event types, and no event
\* is delivered to a subscriber that is unmounted.
C25_OnlyMountedSubscribersNotified ==
    /\ bodyInst # 0 => (bodyInst \in Notified("offline") /\ bodyInst \in Notified("online"))
    /\ "useOnlineStatus.setOnlineStatuse" \notin staleCalls

\* C26: search and the top-rated filter are idempotent: the same operation
\* with the same term applied twice in a row gives the visibleList of applying
\* it once, in the lec9 Body and in the lec5 Body.
C26_Idempotent ==
    [][ /\ (ClickSearch /\ lastOp = [kind |-> "search", term |-> searchData])
              => listOfRestaurant' = listOfRestaurant
        /\ (ClickTopRated /\ lastOp.kind = "filter")
              => listOfRestaurant' = listOfRestaurant
        /\ (Lec5ClickTopRated /\ lastOp.kind = "filter")
              => lec5List' = lec5List ]_vars

\* the same search, which keeps some restaurants and drops others, was run
\* twice in a row
C26_Witness ==
    /\ bodyInst # 0
    /\ lastOp.kind = "search"
    /\ lastOp.term # <<>>
    /\ prevOp = lastOp
    /\ listOfRestaurant # <<>>
    /\ listOfRestaurant # initialList

\* C27: rendering the placeholder or a failure view issues no fetch: while a
\* view stays mounted, no step adds a fetch to the one its mount issued,
\* whether that one is pending, resolved or rejected.
C27_NoSecondFetch ==
    [][ /\ (bodyInst # 0 /\ bodyInst' = bodyInst) => bodyFetches' \subseteq bodyFetches
        /\ (menuInst # 0 /\ menuInst' = menuInst) => menuFetches' \subseteq menuFetches
        /\ (userInst # 0 /\ userInst' = userInst) => userFetches' \subseteq userFetches ]_vars

\* the detail view shows the Shimmer after its only fetch was rejected
C27_Witness ==
    /\ menuInst # 0
    /\ menuMounts = 1
    /\ resInfo = NullInfo
    /\ MenuView.shown = "Shimmer"
    /\ menuFetches = {}

\* the fetches whose settling will still run a handler
PendingWork ==
    Cardinality(bodyFetches) + Cardinality(menuFetches) + Cardinality(userFetches)
        + Cardinality(requests)

\* the steps that are no external event: a fetch settles, its handler sets
\* state, the view renders again and its effects and componentDidUpdate run
InternalStep ==
    \/ BodyFetchResolve \/ BodyFetchReject
    \/ MenuFetchResolve \/ MenuFetchReject
    \/ UserFetchResolve \/ UserFetchReject
    \/ UseFetchResolve \/ UseFetchReject

\* C28: without a further external event a mounted view becomes quiescent
\* after finitely many renders: every internal step consumes one pending
\* fetch and starts no new one, so the renders it causes cannot go on for ever.
C28_UpdatesTerminate ==
    [][ PendingWork' < PendingWork \/ ~InternalStep ]_vars

\* UserClass is quiescent after its update: one setState, one
\* componentDidUpdate, nothing pending
C28_Witness ==
    /\ userInst # 0
    /\ userFetches = {}
    /\ userInfo = "json"
    /\ Occurrences(userLog, "componentDidUpdate") = 1
    /\ Occurrences(userLog, "render") = 2

\* C30: in useFetch, once the cleanup of an effect run has executed, no
\* callback of that run's fetch sets data, error or loading; and whatever the
\* order of url changes and arrivals, data or error set while the url stays
\* the same come from the fetch of that url.
C30_CancelledRunsSetNothing ==
    [][ /\ \A f \in requests :
              (f.cancelled /\ requests' = requests \ {f})
                  => (data' = data /\ error' = error /\ loading' = loading)
        /\ (useFetchInst # 0 /\ useFetchInst' = useFetchInst /\ url' = url)
              => /\ data' # data => data' = url
                 /\ error' # error => error' = url ]_vars

\* the fetch of the latest url has arrived while the cancelled fetch of the
\* url before it is still on its way
C30_Witness ==
    /\ useFetchInst # 0
    /\ data = url
    /\ ~loading
    /\ \E f \in requests : f.cancelled /\ f.inst = useFetchInst /\ f.url # url

\* the renders in the log of the mounted RestaurantMenu
MenuRenders == SelectSeq(menuLog, LAMBDA e : e[1] = "render")

\* every fetch of the mounted RestaurantMenu has resolved with a data object
LoadSucceeded ==
    /\ menuInst # 0
    /\ ~\E f \in menuFetches : f.inst = menuInst
    /\ \A i \in 1..Len(menuLog) :
          menuLog[i] \notin { << "rejected" >>, << "render", "undefined" >> }

\* C29: a fresh load of RestaurantMenu whose fetch succeeds renders exactly
\* twice when the mount effect runs once, first with resInfo null and then with
\* the fetched data; when the mount effect runs twice, fetchData is called
\* twice and there are three renders.
C29_RendersOfALoad ==
    LoadSucceeded =>
        LET runs == Occurrences(menuLog, << "fetchData" >>)
        IN  /\ runs \in {1, 2}
            /\ runs = 1 => MenuRenders = << Rendered(NullInfo), << "render", "data" >> >>
            /\ runs = 2 => MenuRenders = << Rendered(NullInfo), << "render", "data" >>,
                                            << "render", "data" >> >>

\* the development build has loaded the page: two calls of fetchData, both
\* answered with the same menu, three renders
C29_Witness ==
    /\ LoadSucceeded
    /\ Occurrences(menuLog, << "fetchData" >>) = 2
    /\ Len(MenuRenders) = 3
    /\ MenuView.shown = "menu"

\* C31: masterList (initialList) of the mounted list Body is changed only by
\* the resolution of one of its fetches: search, the top-rated filter, typing
\* in the search box and connectivity events leave it as it is.
C31_MasterChangedOnlyByFetch ==
    [][ (bodyInst # 0 /\ bodyInst' = bodyInst) =>
           \/ (initialList' = initialList /\ undefinedLists' = undefinedLists)
           \/ \E f \in bodyFetches \ bodyFetches' : f.inst = bodyInst ]_vars

\* a search, then the filter, then an offline and an online event have acted
\* on a Body whose visible list is shorter than its master list
C31_Witness ==
    /\ bodyInst # 0
    /\ lastOp.kind = "filter"
    /\ prevOp.kind = "search"
    /\ conn = "offon"
    /\ Len(listOfRestaurant) < Len(initialList)
    /\ initialList = fetched

\* C32: with the list Body and a RestaurantMenu mounted at the same time, a
\* fetch resolution, a search or a filter of the Body leaves the instance,
\* the key and the resInfo of the RestaurantMenu unchanged, and a fetch
\* resolution of the RestaurantMenu leaves the instance, masterList and
\* visibleList of the Body unchanged.
C32_InstancesIsolated ==
    [][ /\ (menuInst # 0 /\ (BodyFetchResolve \/ ClickSearch \/ ClickTopRated))
              => (menuInst' = menuInst /\ resId' = resId /\ resInfo' = resInfo)
        /\ (bodyInst # 0 /\ MenuLoadResolve)
              => /\ bodyInst' = bodyInst
                 /\ initialList' = initialList
                 /\ listOfRestaurant' = listOfRestaurant
                 /\ undefinedLists' = undefinedLists ]_vars

\* C33: typing in the search box changes only the search term, visibleList
\* and masterList stay as they are until the search button is clicked; the
\* click selects from masterList by the term that is in the box at that
\* moment.
C33_TypingChangesOnlyTerm ==
    [][ (bodyInst # 0 /\ bodyInst' = bodyInst) =>
           /\ (searchData' # searchData)
                 => (listOfRestaurant' = listOfRestaurant /\ initialList' = initialList)
           /\ ClickSearch
                 => IsSelection(listOfRestaurant', initialList,
                                { r \in Elements(initialList) :
                                      NameContains(r.name, searchData) }) ]_vars

\* after a search the user typed another term: the list on display still
\* holds a restaurant that the term in the box does not match
C33_Witness ==
    /\ bodyInst # 0
    /\ lastOp.kind = "search"
    /\ searchData # lastOp.term
    /\ \E r \in Elements(listOfRestaurant) : ~NameContains(r.name, searchData)
    /\ \E r \in Elements(initialList) \ Elements(listOfRestaurant) :
          NameContains(r.name, searchData)

\* C34: the mount of the list Body issues its fetch whatever the connectivity
\* is; a fetch that resolves while the Body is offline sets masterList and
\* visibleList to the fetched list; and when the online event arrives the
\* Body renders the list from that data and issues no new fetch.
C34_OfflineFetchUsedOnRestore ==
    [][ /\ (bodyMounts' # bodyMounts)
              => \E f \in bodyFetches' \ bodyFetches : f.inst = bodyInst'
        /\ (/\ bodyInst # 0
            /\ ~onlineStatus
            /\ \E f \in bodyFetches \ bodyFetches' : f.inst = bodyInst
            /\ BodyFetchResolve
            /\ ~BodyFetchReject)
              => /\ bodyFault' = NoListFault
                 /\ initialList' = fetched'
                 /\ listOfRestaurant' = fetched'
        /\ (/\ bodyInst # 0
            /\ ~onlineStatus
            /\ lastOp.kind = "fetch"
            /\ OnlineEvent)
              => /\ bodyInst' = bodyInst
                 /\ BodyView' = "list"
                 /\ listOfRestaurant' = fetched
                 /\ bodyFetches' = bodyFetches ]_vars

\* C35: useOnlineStatus reports true from the mount of its view until the
\* first connectivity event, whatever the connectivity of the environment is:
\* the mount sets it to true also when the environment is offline, and no
\* step other than a connectivity event changes it.
C35_OnlineUntilFirstEvent ==
    [][ /\ (bodyMounts' # bodyMounts) => onlineStatus' = TRUE
        /\ (bodyInst # 0 /\ bodyInst' = bodyInst /\ ~onlineStatus')
              => (~onlineStatus \/ (netOnline /\ ~netOnline')) ]_vars

\* a Body mounted while the environment was offline has fetched its list and
\* still reports online
C35_Witness ==
    /\ bodyInst # 0
    /\ ~netOnline
    /\ onlineStatus = TRUE
    /\ lastOp.kind = "fetch"
    /\ BodyView = "list"

\* ---------------------------------------------------------------------------
\* RestaurantMenu with the inline fetchMenu, next to the one with the hook
\* ---------------------------------------------------------------------------

\* what response.json() resolves with: null, or a json object
NullBody == [null |-> TRUE, json |-> CompleteResponse]
Bodies == {NullBody} \cup { [null |-> FALSE, json |-> r] : r \in LoadResponses }

\* fetchMenu: setResInfo(json?.data) - a null body gives undefined
FetchMenuArgument(key, body) ==
    IF body.null THEN MenuData(key, {"data"}, <<>>)
    ELSE MenuData(key, body.json.missing, body.json.itemCards)

\* fetchData of the hook: setResInfo(json.data) - a null body throws before
\* the setter, as a rejected fetch does
FetchDataSettled(f, body) ==
    IF body.null THEN HookRejected(f) ELSE HookResolved(f, body.json)

\* the inline RestaurantMenu mounts: useState(null), the render with null, and
\* the effect, which calls fetchMenu (both versions mount together, so the
\* instance numbers are those of the hook version)
InlineMounted(key) ==
    /\ inlineInst = 0
    /\ ~inlineFault
    /\ inlineInst' = menuMounts + 1
    /\ inlineResInfo' = NullInfo
    /\ inlineFetches' = inlineFetches \cup {MenuFetch(menuMounts + 1, key, 1)}
    /\ UNCHANGED inlineFault

InlineUnmounted ==
    /\ inlineInst # 0
    /\ inlineInst' = 0
    /\ inlineResInfo' = NullInfo
    /\ UNCHANGED << inlineFetches, inlineFault >>

\* fetchMenu after its two awaits: setResInfo(json?.data), then the render with
\* the new resInfo; when that render throws, React unmounts the tree
FetchMenuResolved(f, body) ==
    /\ inlineFetches' = inlineFetches \ {f}
    /\ IF f.inst = inlineInst
       THEN LET info == FetchMenuArgument(f.key, body)
            IN  IF MenuRender(info).shown = "TypeError"
                THEN /\ inlineFault' = TRUE
                     /\ inlineInst' = 0
                     /\ inlineResInfo' = NullInfo
                ELSE /\ inlineResInfo' = info
                     /\ UNCHANGED << inlineInst, inlineFault >>
       ELSE UNCHANGED << inlineInst, inlineResInfo, inlineFault >>

\* the fetch of fetchMenu rejects: fetchMenu throws before setResInfo
FetchMenuRejected(f) ==
    /\ inlineFetches' = inlineFetches \ {f}
    /\ UNCHANGED << inlineInst, inlineResInfo, inlineFault >>

\* what the mounted inline RestaurantMenu shows
InlineView == MenuRender(inlineResInfo)

\* the same event given to both versions
BothMount == \E key \in ResIds : HookMounted(FALSE, key) /\ InlineMounted(key)

BothUnmount == HookUnmounted /\ InlineUnmounted

BothResponse ==
    \E f \in menuFetches \cap inlineFetches :
        \E body \in (IF f.inst = menuInst THEN Bodies
                     ELSE {NullBody, [null |-> FALSE, json |-> CompleteResponse]}) :
            FetchDataSettled(f, body) /\ FetchMenuResolved(f, body)

BothRejection ==
    \E f \in menuFetches \cap inlineFetches : HookRejected(f) /\ FetchMenuRejected(f)

BothInit == InitOf({BothRoot})
BothNext == BothMount \/ BothUnmount \/ BothResponse \/ BothRejection
SpecBoth == BothInit /\ [][BothNext]_vars

\* C36: the RestaurantMenu with the hook and the RestaurantMenu with the inline
\* fetch, given the same identifier and the same mount, response (a null body
\* and a body without data included), rejection and unmount events, are after
\* every step both mounted or both not, show the same placeholder or menu and
\* hold the same resInfo
C36_HookAndInlineEquivalent ==
    /\ (inlineInst = 0) = (menuInst = 0)
    /\ InlineView.shown = MenuView.shown
    /\ inlineResInfo = resInfo
====
